---------------------------- MODULE Spec2Model ----------------------------
(***************************************************************************)
(* IBEX device generator: the command line parser (utils/arg_parser.py)    *)
(* and the generation steps (utils/step.py), with the collaborators the    *)
(* steps call (template population, build-list editor, external commands,  *)
(* VCS, GUI registry) and the step orchestrator modelled at their          *)
(* documented interface.                                                   *)
(*                                                                         *)
(* A string of the command line is the sequence of its Unicode code        *)
(* points, so that int() and "{:02d}".format() are computed, not assumed.  *)
(* The command line is the sequence of its arguments as argparse reads     *)
(* them: a positional, an option with its value, a flag, or an option      *)
(* string the parser does not know.                                        *)
(***************************************************************************)
EXTENDS Integers, Sequences, FiniteSets, TLC

\* ------------------------------------------------------------------ bounds
\* Largest device count given on the command line.
MaxCount == 10
\* How many times the program is started again on the same tree (SpecRerun).
MaxRestarts == 1
\* How many times a caller invokes create_ioc_from_template again on the
\* same DeviceInfo (SpecRerun).
MaxReinvoke == 1

\* --------------------------------------------------------- distinguished values
NoArg == <<-1>>                 \* None: an option that was not given
NoIndex == <<-1>>               \* DeviceInfo: key index absent
NoDevice == [none |-> TRUE]     \* no DeviceInfo constructed
NoNamespace == [none |-> TRUE]  \* parse_arguments did not return
NoError == "<none>"

\* ------------------------------------------------------------------ strings
\* The strings of the model, as code points.
S_empty == <<>>
S_CHOP == <<67, 72, 79, 80>>  \* "CHOP"
S_Chopper == <<67, 104, 111, 112, 112, 101, 114>>  \* "Chopper"
S_ch_op == <<99, 104, 32, 111, 112, 33>>  \* "ch op!"
S_ch_slash_op == <<99, 104, 47, 111, 112>>  \* "ch/op"
S_alpha == <<97, 108, 112, 104, 97>>  \* "alpha"
S_extra == <<101, 120, 116, 114, 97>>  \* "extra"
S_tok == <<116, 111, 107>>  \* "tok"
S_DEBUG == <<68, 69, 66, 85, 71>>  \* "DEBUG"
S_INFO == <<73, 78, 70, 79>>  \* "INFO"
S_WARN == <<87, 65, 82, 78>>  \* "WARN"
S_ERROR == <<69, 82, 82, 79, 82>>  \* "ERROR"
S_LOUD == <<76, 79, 85, 68>>  \* "LOUD"
S_7 == <<55>>                    \* "7"
S_8 == <<56>>                    \* "8"
S_x == <<120>>                   \* "x"
S_sp7sp == <<32, 1639, 9>>       \* " \u0667\t": ARABIC-INDIC DIGIT SEVEN in spaces
S_0 == <<48>>                    \* "0"
S_02 == <<48, 50>>               \* "02"
S_minus1 == <<45, 49>>           \* "-1"
S_sp3sp == <<32, 43, 51, 10>>    \* " +3\n"
S_1_0 == <<49, 95, 48>>          \* "1_0"
S_1__0 == <<49, 95, 95, 48>>     \* "1__0"

\* ---------------------------------------------------------------- int(val)
\* The code points of the digit zero of every Unicode decimal digit range
\* (category Nd); the digits of a range are its zero + 0 .. 9.
NdZeros ==
    {48, 1632, 1776, 1984, 2406, 2534, 2662, 2790, 2918, 3046, 3174, 3302,
     3430, 3558, 3664, 3792, 3872, 4160, 4240, 6112, 6160, 6470, 6608,
     6784, 6800, 6992, 7088, 7232, 7248, 42528, 43216, 43264, 43472, 43504,
     43600, 44016, 65296, 66720, 68912, 69734, 69872, 69942, 70096, 70384,
     70736, 70864, 71248, 71360, 71472, 71904, 72016, 72784, 73040, 73120,
     92768, 92864, 93008, 120782, 120792, 120802, 120812, 120822, 123200,
     123632, 125264, 130032}

\* What int() strips from both ends of the string.
Spaces == {9, 10, 11, 12, 13, 32, 133, 160, 5760, 8232, 8233, 8239, 8287, 12288}
          \cup (8192..8202)

IsDigit(c) == \E z \in NdZeros : c >= z /\ c <= z + 9

DigitOf(c) == c - (CHOOSE z \in NdZeros : c >= z /\ c <= z + 9)

IsSpace(c) == c \in Spaces

RECURSIVE LStrip(_)
LStrip(s) == IF Len(s) >= 1 /\ IsSpace(s[1]) THEN LStrip(Tail(s)) ELSE s

RECURSIVE RStrip(_)
RStrip(s) == IF Len(s) >= 1 /\ IsSpace(s[Len(s)])
             THEN RStrip(SubSeq(s, 1, Len(s) - 1)) ELSE s

\* Value of a sequence of digits (0 for none).
RECURSIVE DigitsValue(_)
DigitsValue(s) == IF Len(s) = 0 THEN 0
                  ELSE 10 * DigitsValue(SubSeq(s, 1, Len(s) - 1)) + DigitOf(s[Len(s)])

\* A decimal literal: digits, with single underscores between digits only.
IsDecimalLiteral(t) ==
    /\ Len(t) >= 1
    /\ IsDigit(t[1])
    /\ IsDigit(t[Len(t)])
    /\ \A k \in 1..Len(t) : IsDigit(t[k]) \/ t[k] = 95
    /\ \A k \in 1..(Len(t) - 1) : ~(t[k] = 95 /\ t[k + 1] = 95)

\* Python int(val) on a string: surrounding whitespace is stripped, then an
\* optional sign and a decimal literal of at most 4300 digits; anything else
\* raises ValueError (ok = FALSE).
\* The sign of a stripped string: -1 behind "-", else 1.
Sign(t) == IF Len(t) >= 1 /\ t[1] = 45 THEN -1 ELSE 1

\* A stripped string without its sign ("+" or "-").
Unsigned(t) == IF Len(t) >= 1 /\ t[1] \in {43, 45} THEN Tail(t) ELSE t

\* The integer of a sign and a literal, or ValueError (ok = FALSE).
IntOfLiteral(sign, lit) ==
    IF IsDecimalLiteral(lit) /\ Len(SelectSeq(lit, IsDigit)) <= 4300
    THEN [ok |-> TRUE, val |-> sign * DigitsValue(SelectSeq(lit, IsDigit))]
    ELSE [ok |-> FALSE, val |-> 0]

IntOfStripped(t) == IntOfLiteral(Sign(t), Unsigned(t))

PyInt(s) == IntOfStripped(RStrip(LStrip(s)))

\* -------------------------------------------------------- "{:02d}".format
\* str(n) for n >= 0: the decimal digits of n.
RECURSIVE Dec(_)
Dec(n) == IF n < 10 THEN <<48 + n>>
          ELSE Append(Dec(n \div 10), 48 + (n % 10))

\* A mis-formatted index: the number without padding.
Format02d_NoPad(n) == Dec(n)

\* "{:02d}".format(n) for n >= 0: at least two digits, padded with zeros.
Format02d(n) == IF Len(Dec(n)) < 2 THEN <<48>> \o Dec(n) ELSE Dec(n)

\* ------------------------------------------- validators (device_info, github)
\* IOC and device names: non-empty and matching the naming pattern.
ValidIocNames == {S_CHOP}
ValidDeviceNames == {S_Chopper, S_CHOP}
\* Issues that exist and are open on the issue tracker.
OpenIssues == {7}

is_valid_ioc_name(name) == name \in ValidIocNames

is_valid_device_name(name) == name \in ValidDeviceNames

is_valid_device_count(count) == count >= 1

does_github_issue_exist_and_is_open(ticket) == ticket \in OpenIssues

\* DeviceInfo.default_device_count
default_device_count == 1

\* ------------------------------------------------------- command line inputs
Item(opt, val) == [opt |-> opt, val |-> val]

IocNameArgs == {S_CHOP, S_empty, S_ch_op}
DeviceNameArgs == {S_Chopper, S_empty, S_ch_slash_op}
TicketArgs == {S_7, S_8, S_x}
CountArgs == {Dec(n) : n \in 0..MaxCount} \cup {S_02, S_minus1, S_x, S_empty}

\* No item, or one item of option opt with a value of vals.
Optional(opt, vals) == {<<>>} \cup {<<Item(opt, v)>> : v \in vals}

\* Command lines in the usual order: the IOC name, the ticket, then
\* --device_name and --device_count when given.
CommandLines ==
    {<<Item("positional", n), Item("positional", t)>> \o d \o c :
        n \in IocNameArgs, t \in TicketArgs,
        d \in Optional("--device_name", DeviceNameArgs),
        c \in Optional("--device_count", CountArgs)}

\* The other arguments a command line can hold: the remaining options and
\* flags, a third positional, an option string the parser does not know.
OtherItems ==
    {Item("--log_level", S_DEBUG), Item("--log_level", S_LOUD),
     Item("--github_token", S_tok), Item("--use_git", S_empty),
     Item("--interactive", S_empty), Item("--help", S_empty),
     Item("unrecognized", S_empty), Item("positional", S_extra)}

RECURSIVE Orderings(_)
Orderings(S) ==
    IF S = {} THEN {<<>>}
    ELSE UNION {{<<x>> \o p : p \in Orderings(S \ {x})} : x \in S}

Range(s) == {s[k] : k \in 1..Len(s)}

\* Command lines in any order: the arguments of a command line in the usual
\* order with its ticket possibly left out, and at most one other argument,
\* permuted.
WideItemSets ==
    {Range(n) \cup Range(t) \cup Range(d) \cup Range(c) \cup o :
        n \in {<<Item("positional", v)>> : v \in IocNameArgs},
        t \in Optional("positional", {S_7, S_8, S_x, S_sp7sp, S_extra}),
        d \in Optional("--device_name", DeviceNameArgs),
        c \in Optional("--device_count", {S_0, S_sp3sp, S_1_0, S_1__0}),
        o \in {{}} \cup {{x} : x \in OtherItems}}

\* --------------------------------------------------------------- arg_parser
ioc_name_checker(ioc_name) ==
    IF ~is_valid_ioc_name(ioc_name)
    THEN [ok |-> FALSE, val |-> ioc_name, err |-> "InvalidIOCNameError"]
    ELSE [ok |-> TRUE, val |-> ioc_name, err |-> NoError]

device_name_checker(device_name) ==
    IF ~is_valid_device_name(device_name)
    THEN [ok |-> FALSE, val |-> device_name, err |-> "InvalidDeviceNameError"]
    ELSE [ok |-> TRUE, val |-> device_name, err |-> NoError]

\* int(val) raised ValueError, which argparse reports as an invalid value.
ValueError == [ok |-> FALSE, val |-> 0, err |-> "ValueError"]

\* A count checker that does not ask is_valid_device_count.
device_count_checker_NoCheck(val) ==
    LET count == PyInt(val) IN
    IF ~count.ok THEN ValueError
    ELSE [ok |-> TRUE, val |-> count.val, err |-> NoError]

\* The checks of device_count_checker on count = int(val).
device_count_checked(count) ==
    IF ~count.ok THEN ValueError
    ELSE IF ~is_valid_device_count(count.val)
    THEN [ok |-> FALSE, val |-> count.val, err |-> "InvalidDeviceCountError"]
    ELSE [ok |-> TRUE, val |-> count.val, err |-> NoError]

device_count_checker(val) == device_count_checked(PyInt(val))

\* The checks of ticket_number_checker on ticket_number = int(val).
ticket_number_checked(ticket_number) ==
    IF ~ticket_number.ok THEN ValueError
    ELSE IF ~does_github_issue_exist_and_is_open(ticket_number.val)
    THEN [ok |-> FALSE, val |-> ticket_number.val,
          err |-> "GitHub issue is closed or does not exist"]
    ELSE [ok |-> TRUE, val |-> ticket_number.val, err |-> NoError]

ticket_number_checker(val) == ticket_number_checked(PyInt(val))

\* choices of --log_level
LogLevels == {S_DEBUG, S_INFO, S_WARN, S_ERROR}

\* The Namespace before any argument is read: the defaults of the options.
DefaultNamespace ==
    [ioc_name |-> NoArg, ticket |-> 0, device_name |-> NoArg,
     device_count |-> default_device_count, use_git |-> FALSE,
     github_token |-> NoArg, log_level |-> S_INFO, interactive |-> FALSE]

\* parser.error(message): the message is printed and the process exits with 2.
ParserError(message) == [ok |-> FALSE, exit |-> 2, err |-> message, ns |-> NoNamespace]

\* parser.parse_args() from argument k on, npos positionals read so far:
\* the arguments are taken in command-line order and each is converted by
\* its type function as it is taken, the first failure ending the parse; -h
\* prints the help and exits with 0; a third positional or an unknown option
\* string is set aside. At the end a missing positional is an error, then
\* anything set aside is.
RECURSIVE ParseFrom(_, _, _, _, _)

\* The type function or the choices of argument opt applied to its value,
\* with npos positionals read before it.
Convert(opt, val, npos) ==
    IF opt = "positional" /\ npos = 0 THEN ioc_name_checker(val)
    ELSE IF opt = "positional" /\ npos = 1 THEN ticket_number_checker(val)
    ELSE IF opt = "--device_name" THEN device_name_checker(val)
    ELSE IF opt = "--device_count" THEN device_count_checker(val)
    ELSE IF opt = "--log_level" /\ val \notin LogLevels
    THEN [ok |-> FALSE, val |-> val, err |-> "invalid choice"]
    ELSE [ok |-> TRUE, val |-> val, err |-> NoError]

\* Argument k, of option opt and converted to r, is taken and the parse
\* goes on behind it.
Take(av, k, ns, npos, extras, opt, r) ==
    IF opt = "--help"
    THEN [ok |-> FALSE, exit |-> 0, err |-> NoError, ns |-> NoNamespace]
    ELSE IF ~r.ok THEN ParserError(r.err)
    ELSE IF opt = "positional" /\ npos < 2
    THEN ParseFrom(av, k + 1,
                   IF npos = 0 THEN [ns EXCEPT !.ioc_name = r.val]
                   ELSE [ns EXCEPT !.ticket = r.val],
                   npos + 1, extras)
    ELSE ParseFrom(av, k + 1,
                   CASE opt = "--device_name" -> [ns EXCEPT !.device_name = r.val]
                     [] opt = "--device_count" -> [ns EXCEPT !.device_count = r.val]
                     [] opt = "--log_level" -> [ns EXCEPT !.log_level = r.val]
                     [] opt = "--github_token" -> [ns EXCEPT !.github_token = r.val]
                     [] opt = "--use_git" -> [ns EXCEPT !.use_git = TRUE]
                     [] opt = "--interactive" -> [ns EXCEPT !.interactive = TRUE]
                     [] OTHER -> ns,
                   npos, extras \/ opt \in {"positional", "unrecognized"})

ParseFrom(av, k, ns, npos, extras) ==
    IF k > Len(av)
    THEN IF npos < 2 THEN ParserError("the following arguments are required")
         ELSE IF extras THEN ParserError("unrecognized arguments")
         ELSE [ok |-> TRUE, exit |-> 0, err |-> NoError, ns |-> ns]
    ELSE Take(av, k, ns, npos, extras, av[k].opt,
              Convert(av[k].opt, av[k].val, npos))

parse_args(av) == ParseFrom(av, 1, DefaultNamespace, 0, FALSE)

\* A parser that replaces the device name by the IOC name unconditionally.
parse_arguments_AlwaysDefault(av) ==
    LET r == parse_args(av) IN
    IF ~r.ok THEN r
    ELSE [r EXCEPT !.ns = [r.ns EXCEPT !.device_name = r.ns.ioc_name]]

\* parse_arguments(): parse, then default the device name to the IOC name
\* when it is None or empty.
device_name_defaulted(r) ==
    IF ~r.ok THEN r
    ELSE IF r.ns.device_name \in {NoArg, S_empty}
    THEN [r EXCEPT !.ns = [r.ns EXCEPT !.device_name = r.ns.ioc_name]]
    ELSE r

parse_arguments(av) == device_name_defaulted(parse_args(av))

\* --------------------------------------------------------------- DeviceInfo
\* Naming conventions of the derived keys, on the device and IOC names above.
SupportModuleNames == (S_Chopper :> "Chopper-support") @@ (S_CHOP :> "CHOP-support")
GithubRepoNames == (S_Chopper :> "EPICS-Chopper") @@ (S_CHOP :> "EPICS-CHOP")
SupportMasterPaths == (S_Chopper :> "support/Chopper/master")
                      @@ (S_CHOP :> "support/CHOP/master")
IocPaths == (S_CHOP :> "ioc/master/CHOP")

\* DeviceInfo(ioc_name, device_name, ticket, device_count): the primary keys
\* and the keys derived from them; index is absent until a step sets it.
DeviceInfo(ns) ==
    [ioc_name |-> ns.ioc_name,
     device_name |-> ns.device_name,
     ticket |-> ns.ticket,
     device_count |-> ns.device_count,
     device_support_module_name |-> SupportModuleNames[ns.device_name],
     github_repo_name |-> GithubRepoNames[ns.device_name],
     support_master_path |-> SupportMasterPaths[ns.device_name],
     ioc_path |-> IocPaths[ns.ioc_name],
     index |-> NoIndex]

\* ---------------------------------------------------------------- templates
Tags == {"3", "4", "5_1", "5_2", "6", "7", "8"}
NoTag == "<none>"

\* The token of a template that no DeviceInfo defines.
UndefinedKey == "undefined_key"

\* The placeholder tokens of template tag under template set t: every
\* template names the IOC, 5_2 names the index, 5_1 may, and at most one
\* template (t.bad) holds a token that is no key of DeviceInfo.
Tokens(t, tag) ==
    {"ioc_name"}
    \cup (IF tag = "5_2" \/ (tag = "5_1" /\ t.idx51) THEN {"index"} ELSE {})
    \cup (IF tag = t.bad THEN {UndefinedKey} ELSE {})

get_template(t, tag) == [tag |-> tag, tokens |-> Tokens(t, tag)]

\* The keys a placeholder mapping defines.
DefinedKeys(placeholders) ==
    {"ioc_name", "device_name", "ticket", "device_count",
     "device_support_module_name", "github_repo_name",
     "support_master_path", "ioc_path"}
    \cup (IF placeholders.index = NoIndex THEN {} ELSE {"index"})

\* The file a template yields: its tag, its root, the index substituted
\* into it (NoIndex when the template has no index token) and the tokens left
\* unsubstituted in it.
OutputFile(template, root, placeholders, raw) ==
    [tag |-> template.tag, root |-> root,
     index |-> IF "index" \in template.tokens \ raw THEN placeholders.index ELSE NoIndex,
     raw |-> raw]

\* A populator that leaves a token it cannot resolve in the output.
populate_template_dir_Leaky(template, root, placeholders, fs) ==
    [err |-> NoError,
     files |-> fs \cup {OutputFile(template, root, placeholders,
                                   template.tokens \ DefinedKeys(placeholders))}]

\* populate(template, target_root, placeholders): UnresolvedPlaceholderError
\* and no write when a token has no key in the mapping; otherwise the output
\* is written (an existing file is overwritten).
populate_template_dir(template, root, placeholders, fs) ==
    IF template.tokens \ DefinedKeys(placeholders) # {}
    THEN [err |-> "UnresolvedPlaceholderError", files |-> fs]
    ELSE [err |-> NoError,
          files |-> fs \cup {OutputFile(template, root, placeholders, {})}]

\* ------------------------------------------------------------ build lists
InSeq(x, s) == \E k \in 1..Len(s) : s[k] = x

Count(x, s) == Cardinality({k \in 1..Len(s) : s[k] = x})

\* An editor that appends without looking for the entry.
add_to_makefile_list_Append(mk, list_name, entry) ==
    IF ~mk[list_name].present
    THEN [err |-> "BuildVariableNotFoundError", mk |-> mk]
    ELSE [err |-> NoError,
          mk |-> [mk EXCEPT ![list_name].entries = Append(@, entry)]]

\* add_entry(file, variable, entry): BuildVariableNotFoundError when the
\* variable is not in the file, no rewrite when the entry is there, else the
\* entry is appended at the end of the list.
add_to_makefile_list(mk, list_name, entry) ==
    IF ~mk[list_name].present
    THEN [err |-> "BuildVariableNotFoundError", mk |-> mk]
    ELSE IF InSeq(entry, mk[list_name].entries)
    THEN [err |-> NoError, mk |-> mk]
    ELSE [err |-> NoError,
          mk |-> [mk EXCEPT ![list_name].entries = Append(@, entry)]]

\* The build lists a tree can start with: the variable missing, or holding
\* other entries, or (IOCDIRS) already holding this IOC.
SuppDirsInit == {[present |-> FALSE, entries |-> <<>>],
                 [present |-> TRUE, entries |-> <<"alpha">>]}
IocDirsInit == {[present |-> FALSE, entries |-> <<>>],
                [present |-> TRUE, entries |-> <<S_alpha>>],
                [present |-> TRUE, entries |-> <<S_alpha, S_CHOP>>]}

\* -------------------------------------------------------------------- state
VARIABLES
    argv,       \* the command line: ioc_name, ticket, --device_name, --device_count
    tmpl,       \* the template set on disk: [bad, idx51]
    cli,        \* parse_arguments: [status, code, err]
    args,       \* the Namespace parse_arguments returned
    device,     \* the DeviceInfo shared by all steps
    state,      \* the orchestrator's state
    cur,        \* the step function being executed
    pc,         \* the position in it
    i,          \* create_ioc_from_template's loop variable
    files,      \* the files written under EPICS and CLIENT_SRC
    makefiles,  \* the list variables SUPPDIRS and IOCDIRS
    proc,       \* the external process run_command started: [status, code]
    calls,      \* the calls made to the collaborators in this run, in order
    error,      \* the exception that ended the run
    restarts,   \* how many times the program was started again
    reinvokes   \* how many times the IOC step was invoked again

vars == <<argv, tmpl, cli, args, device, state, cur, pc, i, files, makefiles,
          proc, calls, error, restarts, reinvokes>>

States == <<"NOT_STARTED", "SUBMODULE_CREATED", "STRUCTURE_POPULATED",
            "IOC_POPULATED", "TEST_FRAMEWORK_ADDED", "EMULATOR_ADDED",
            "GUI_ADDED", "DONE">>

Steps == <<"create_submodule", "create_submodule_structure",
           "create_ioc_from_template", "add_test_framework",
           "add_lewis_emulator", "add_opi_to_gui">>

FirstLabel == [create_submodule |-> "sub_git",
               create_submodule_structure |-> "struct_populate",
               create_ioc_from_template |-> "ioc_populate1",
               add_test_framework |-> "test_populate",
               add_lewis_emulator |-> "lewis_populate",
               add_opi_to_gui |-> "gui_populate"]

StateIndex(s) == CHOOSE k \in 1..Len(States) : States[k] = s

StepIndex(s) == CHOOSE k \in 1..Len(Steps) : Steps[k] = s

NoStep == "<no step>"
NoProc == [status |-> "none", code |-> 0]

Call(op, what, index, code) == [op |-> op, what |-> what, index |-> index, code |-> code]

\* The program starts on one of the template sets and build lists given.
InitWith(templates, lists) ==
    /\ tmpl \in templates
    /\ cli = [status |-> "start", code |-> 0, err |-> NoError]
    /\ args = NoNamespace
    /\ device = NoDevice
    /\ state = "NOT_STARTED"
    /\ cur = NoStep
    /\ pc = "cli"
    /\ i = 0
    /\ files = {}
    /\ makefiles \in lists
    /\ proc = NoProc
    /\ calls = <<>>
    /\ error = NoError
    /\ restarts = 0
    /\ reinvokes = 0

\* Command lines in the usual order, on any template set and build lists.
Init ==
    /\ argv \in CommandLines
    /\ InitWith([bad : Tags \cup {NoTag}, idx51 : BOOLEAN],
                [SUPPDIRS : SuppDirsInit, IOCDIRS : IocDirsInit])

\* Command lines in any order, on templates that resolve and build lists
\* that hold their variables.
InitCli ==
    /\ \E S \in WideItemSets : argv \in Orderings(S)
    /\ InitWith({[bad |-> NoTag, idx51 |-> FALSE]},
                {[SUPPDIRS |-> [present |-> TRUE, entries |-> <<"alpha">>],
                  IOCDIRS |-> [present |-> TRUE, entries |-> <<S_alpha>>]]})

\* ------------------------------------------------------- command line, main
\* args = parse_arguments(): the Namespace, or argparse's error and exit(2).
ParseArguments ==
    /\ pc = "cli"
    /\ cli.status = "start"
    /\ \E r \in {parse_arguments(argv)} :
           /\ cli' = [status |-> IF r.ok THEN "parsed" ELSE "exit",
                      code |-> r.exit, err |-> r.err]
           /\ args' = r.ns
           /\ pc' = IF r.ok THEN "main" ELSE "exited"
    /\ UNCHANGED <<argv, tmpl, device, state, cur, i, files, makefiles, proc,
                   calls, error, restarts, reinvokes>>

\* The DeviceInfo is constructed once from the validated arguments.
ConstructDeviceInfo ==
    /\ pc = "main"
    /\ cli.status = "parsed"
    /\ device' = DeviceInfo(args)
    /\ pc' = "idle"
    /\ UNCHANGED <<argv, tmpl, cli, args, state, cur, i, files, makefiles, proc,
                   calls, error, restarts, reinvokes>>

\* The orchestrator calls the step that follows its state.
BeginStep ==
    /\ pc = "idle"
    /\ StateIndex(state) <= Len(Steps)
    /\ cur' = Steps[StateIndex(state)]
    /\ pc' = FirstLabel[cur']
    /\ calls' = Append(calls, Call("begin", cur', device.index, 0))
    /\ UNCHANGED <<argv, tmpl, cli, args, device, state, i, files, makefiles,
                   proc, error, restarts, reinvokes>>

\* After the last step the run is complete.
Finish ==
    /\ pc = "idle"
    /\ state = "GUI_ADDED"
    /\ state' = "DONE"
    /\ pc' = "finished"
    /\ UNCHANGED <<argv, tmpl, cli, args, device, cur, i, files, makefiles, proc,
                   calls, error, restarts, reinvokes>>

\* A step function returns to the orchestrator, which advances its state
\* when the step was the one its state called for.
Return ==
    /\ pc' = "idle"
    /\ state' = IF StateIndex(state) = StepIndex(cur)
                THEN States[StateIndex(state) + 1] ELSE state

\* An exception leaves the step and ends the run.
Raise(e) ==
    /\ error' = e
    /\ pc' = "halted"

\* populate_template_dir(get_template(tag), root, placeholders) at a call
\* site: the files written and the call logged; on its error the exception
\* ends the run, else the step goes on at label next.
Populate(tag, root, placeholders, next) ==
    LET r == populate_template_dir(get_template(tmpl, tag), root, placeholders, files) IN
    /\ files' = r.files
    /\ IF r.err = NoError
       THEN /\ calls' = Append(calls, Call("populate", tag, placeholders.index, 0))
            /\ pc' = next
            /\ error' = error
       ELSE /\ calls' = Append(calls, Call("populate_failed", tag, placeholders.index, 0))
            /\ Raise(r.err)

\* ------------------------------------------------------- create_submodule
\* epics_repo.create_submodule(...): the VCS operation succeeds or raises.
create_submodule_git ==
    /\ pc = "sub_git"
    /\ \E ok \in BOOLEAN :
          IF ok
          THEN /\ calls' = Append(calls, Call("git_submodule", device.device_support_module_name,
                                              device.index, 0))
               /\ pc' = "sub_populate"
               /\ error' = error
          ELSE /\ calls' = Append(calls, Call("git_submodule_failed",
                                              device.device_support_module_name, device.index, 1))
               /\ Raise("ExternalToolFailure")
    /\ UNCHANGED <<argv, tmpl, cli, args, device, state, cur, i, files, makefiles,
                   proc, restarts, reinvokes>>

\* populate_template_dir(get_template("3"), EPICS, device)
create_submodule_populate ==
    /\ pc = "sub_populate"
    /\ Populate("3", "EPICS", device, "sub_makefile")
    /\ UNCHANGED <<argv, tmpl, cli, args, device, state, cur, i, makefiles, proc,
                   restarts, reinvokes>>

\* add_to_makefile_list(EPICS_SUPPORT, "SUPPDIRS", module name); return.
create_submodule_makefile ==
    /\ pc = "sub_makefile"
    /\ LET r == add_to_makefile_list(makefiles, "SUPPDIRS", device.device_support_module_name) IN
       /\ makefiles' = r.mk
       /\ IF r.err = NoError
          THEN /\ calls' = Append(calls, Call("add_entry", "SUPPDIRS", device.index, 0))
               /\ Return
               /\ error' = error
          ELSE /\ calls' = Append(calls, Call("add_entry_failed", "SUPPDIRS", device.index, 0))
               /\ Raise(r.err)
               /\ state' = state
    /\ UNCHANGED <<argv, tmpl, cli, args, device, cur, i, files, proc, restarts, reinvokes>>

\* --------------------------------------------- create_submodule_structure
\* populate_template_dir(get_template("4"), EPICS, device)
create_submodule_structure_populate ==
    /\ pc = "struct_populate"
    /\ Populate("4", "EPICS", device, "struct_make")
    /\ UNCHANGED <<argv, tmpl, cli, args, device, state, cur, i, makefiles, proc,
                   restarts, reinvokes>>

\* A call of make that does not wait for the process.
create_submodule_structure_make_NoWait ==
    /\ pc = "struct_make"
    /\ proc' = [status |-> "running", code |-> 0]
    /\ calls' = Append(calls, Call("make", device.support_master_path, device.index, 0))
    /\ Return
    /\ UNCHANGED <<argv, tmpl, cli, args, device, cur, i, files, makefiles, error,
                   restarts, reinvokes>>

\* run_command(["make"], device[SUPPORT_MASTER_PATH]): the process starts
\* and the step blocks on it.
create_submodule_structure_make ==
    /\ pc = "struct_make"
    /\ proc' = [status |-> "running", code |-> 0]
    /\ calls' = Append(calls, Call("make", device.support_master_path, device.index, 0))
    /\ pc' = "struct_make_wait"
    /\ UNCHANGED <<argv, tmpl, cli, args, device, state, cur, i, files, makefiles,
                   error, restarts, reinvokes>>

\* The exit codes of the build tool.
ExitCodes == {0, 2}

\* The external process exits; run_command returns its exit code.
run_command_exit ==
    /\ proc.status = "running"
    /\ \E code \in ExitCodes :
          /\ proc' = [status |-> "exited", code |-> code]
          /\ calls' = Append(calls, Call("make_exit", cur, device.index, code))
    /\ UNCHANGED <<argv, tmpl, cli, args, device, state, cur, pc, i, files,
                   makefiles, error, restarts, reinvokes>>

\* run_command has returned; its result is not used and the step returns.
create_submodule_structure_return ==
    /\ pc = "struct_make_wait"
    /\ proc.status = "exited"
    /\ proc' = NoProc
    /\ Return
    /\ UNCHANGED <<argv, tmpl, cli, args, device, cur, i, files, makefiles, calls,
                   error, restarts, reinvokes>>

\* ----------------------------------------------- create_ioc_from_template
\* populate_template_dir(get_template("5_1"), EPICS, device); the loop starts.
create_ioc_from_template_first ==
    /\ pc = "ioc_populate1"
    /\ Populate("5_1", "EPICS", device, "ioc_loop")
    /\ i' = 2
    /\ UNCHANGED <<argv, tmpl, cli, args, device, state, cur, makefiles, proc,
                   restarts, reinvokes>>

\* A loop body that populates from a copy of the DeviceInfo.
create_ioc_from_template_nth_Copy ==
    /\ pc = "ioc_loop"
    /\ i <= device.device_count
    /\ Populate("5_2", "EPICS", [device EXCEPT !.index = Format02d(i)], "ioc_loop")
    /\ i' = i + 1
    /\ UNCHANGED <<argv, tmpl, cli, args, device, state, cur, makefiles, proc,
                   restarts, reinvokes>>

\* for i in range(2, device_count + 1): subs = device (an alias);
\* subs[INDEX] = "{:02d}".format(i); populate from template 5_2 with subs.
create_ioc_from_template_nth ==
    /\ pc = "ioc_loop"
    /\ i <= device.device_count
    /\ device' = [device EXCEPT !.index = Format02d(i)]
    /\ Populate("5_2", "EPICS", device', "ioc_loop")
    /\ i' = i + 1
    /\ UNCHANGED <<argv, tmpl, cli, args, state, cur, makefiles, proc,
                   restarts, reinvokes>>

\* A build-list edit whose error is swallowed.
create_ioc_from_template_makefile_Swallow ==
    /\ pc = "ioc_loop"
    /\ i > device.device_count
    /\ LET r == add_to_makefile_list(makefiles, "IOCDIRS", device.ioc_name) IN
       /\ makefiles' = r.mk
       /\ calls' = Append(calls, Call(IF r.err = NoError THEN "add_entry" ELSE "add_entry_failed",
                                      "IOCDIRS", device.index, 0))
       /\ pc' = "ioc_make"
    /\ UNCHANGED <<argv, tmpl, cli, args, device, state, cur, i, files, proc, error,
                   restarts, reinvokes>>

\* The loop is over: add_to_makefile_list(IOC_ROOT, "IOCDIRS", ioc name).
create_ioc_from_template_makefile ==
    /\ pc = "ioc_loop"
    /\ i > device.device_count
    /\ LET r == add_to_makefile_list(makefiles, "IOCDIRS", device.ioc_name) IN
       /\ makefiles' = r.mk
       /\ IF r.err = NoError
          THEN /\ calls' = Append(calls, Call("add_entry", "IOCDIRS", device.index, 0))
               /\ pc' = "ioc_make"
               /\ error' = error
          ELSE /\ calls' = Append(calls, Call("add_entry_failed", "IOCDIRS", device.index, 0))
               /\ Raise(r.err)
    /\ UNCHANGED <<argv, tmpl, cli, args, device, state, cur, i, files, proc,
                   restarts, reinvokes>>

\* run_command(["make"], device[IOC_PATH]): the process starts and the step
\* blocks on it.
create_ioc_from_template_make ==
    /\ pc = "ioc_make"
    /\ proc' = [status |-> "running", code |-> 0]
    /\ calls' = Append(calls, Call("make", device.ioc_path, device.index, 0))
    /\ pc' = "ioc_make_wait"
    /\ UNCHANGED <<argv, tmpl, cli, args, device, state, cur, i, files, makefiles,
                   error, restarts, reinvokes>>

\* run_command has returned; its result is not used and the step returns.
create_ioc_from_template_return ==
    /\ pc = "ioc_make_wait"
    /\ proc.status = "exited"
    /\ proc' = NoProc
    /\ Return
    /\ UNCHANGED <<argv, tmpl, cli, args, device, cur, i, files, makefiles, calls,
                   error, restarts, reinvokes>>

\* ------------------------------ add_test_framework, add_lewis_emulator, gui
\* A test-framework step that clears the index before it populates.
add_test_framework_ClearIndex ==
    /\ pc = "test_populate"
    /\ device' = [device EXCEPT !.index = NoIndex]
    /\ Populate("6", "EPICS", device', "idle")
    /\ state' = IF error' = NoError /\ StateIndex(state) = StepIndex(cur)
                THEN States[StateIndex(state) + 1] ELSE state
    /\ UNCHANGED <<argv, tmpl, cli, args, cur, i, makefiles, proc,
                   restarts, reinvokes>>

\* populate_template_dir(get_template("6"), EPICS, device); return.
add_test_framework ==
    /\ pc = "test_populate"
    /\ Populate("6", "EPICS", device, "idle")
    /\ state' = IF error' = NoError /\ StateIndex(state) = StepIndex(cur)
                THEN States[StateIndex(state) + 1] ELSE state
    /\ UNCHANGED <<argv, tmpl, cli, args, device, cur, i, makefiles, proc,
                   restarts, reinvokes>>

\* populate_template_dir(get_template("7"), EPICS, device); return.
add_lewis_emulator ==
    /\ pc = "lewis_populate"
    /\ Populate("7", "EPICS", device, "idle")
    /\ state' = IF error' = NoError /\ StateIndex(state) = StepIndex(cur)
                THEN States[StateIndex(state) + 1] ELSE state
    /\ UNCHANGED <<argv, tmpl, cli, args, device, cur, i, makefiles, proc,
                   restarts, reinvokes>>

\* populate_template_dir(get_template("8"), CLIENT_SRC, device)
add_opi_to_gui_populate ==
    /\ pc = "gui_populate"
    /\ Populate("8", "CLIENT_SRC", device, "gui_opi")
    /\ UNCHANGED <<argv, tmpl, cli, args, device, state, cur, i, makefiles, proc,
                   restarts, reinvokes>>

\* add_device_opi_to_opi_info(device): the GUI registry is updated or the
\* call raises; return.
add_opi_to_gui_opi_info ==
    /\ pc = "gui_opi"
    /\ \E ok \in BOOLEAN :
          IF ok
          THEN /\ calls' = Append(calls, Call("opi_info", device.github_repo_name, device.index, 0))
               /\ Return
               /\ error' = error
          ELSE /\ calls' = Append(calls, Call("opi_info_failed", device.github_repo_name,
                                              device.index, 1))
               /\ Raise("ExternalToolFailure")
               /\ state' = state
    /\ UNCHANGED <<argv, tmpl, cli, args, device, cur, i, files, makefiles, proc,
                   restarts, reinvokes>>

\* --------------------------------------------------------------- re-running
\* The program is started again with the same command line on the tree the
\* previous run left: the files and the build lists stay.
Restart ==
    /\ pc \in {"halted", "finished"}
    /\ restarts < MaxRestarts
    /\ restarts' = restarts + 1
    /\ cli' = [status |-> "start", code |-> 0, err |-> NoError]
    /\ args' = NoNamespace
    /\ device' = NoDevice
    /\ state' = "NOT_STARTED"
    /\ cur' = NoStep
    /\ pc' = "cli"
    /\ i' = 0
    /\ proc' = NoProc
    /\ calls' = <<>>
    /\ error' = NoError
    /\ UNCHANGED <<argv, tmpl, files, makefiles, reinvokes>>

\* A caller invokes create_ioc_from_template again on the same DeviceInfo.
ReinvokeIoc ==
    /\ pc = "idle"
    /\ StateIndex(state) > StepIndex("create_ioc_from_template")
    /\ reinvokes < MaxReinvoke
    /\ reinvokes' = reinvokes + 1
    /\ cur' = "create_ioc_from_template"
    /\ pc' = FirstLabel[cur']
    /\ calls' = Append(calls, Call("begin", cur', device.index, 0))
    /\ UNCHANGED <<argv, tmpl, cli, args, device, state, i, files, makefiles,
                   proc, error, restarts>>

\* ------------------------------------------------------------ specification
Next ==
    \/ ParseArguments
    \/ ConstructDeviceInfo
    \/ BeginStep
    \/ Finish
    \/ create_submodule_git
    \/ create_submodule_populate
    \/ create_submodule_makefile
    \/ create_submodule_structure_populate
    \/ create_submodule_structure_make
    \/ run_command_exit
    \/ create_submodule_structure_return
    \/ create_ioc_from_template_first
    \/ create_ioc_from_template_nth
    \/ create_ioc_from_template_makefile
    \/ create_ioc_from_template_make
    \/ create_ioc_from_template_return
    \/ add_test_framework
    \/ add_lewis_emulator
    \/ add_opi_to_gui_populate
    \/ add_opi_to_gui_opi_info

Spec == Init /\ [][Next]_vars

NextRerun ==
    \/ Next
    \/ Restart
    \/ ReinvokeIoc

SpecRerun == Init /\ [][NextRerun]_vars

SpecCli == InitCli /\ [][Next]_vars

\* ------------------------------------------------------- reading the log
Last(s) == s[Len(s)]

IocStep == "create_ioc_from_template"

\* The position of the begin entry of the step that made call k.
SegStart(k) == CHOOSE b \in 1..k :
                  /\ calls[b].op = "begin"
                  /\ \A j \in (b + 1)..k : calls[j].op # "begin"

\* The calls of the segment begun at b: up to the next begin, or the end.
SegEnd(b) == IF \E j \in (b + 1)..Len(calls) : calls[j].op = "begin"
             THEN (CHOOSE j \in (b + 1)..Len(calls) :
                      /\ calls[j].op = "begin"
                      /\ \A h \in (b + 1)..(j - 1) : calls[h].op # "begin") - 1
             ELSE Len(calls)

Begins == {b \in 1..Len(calls) : calls[b].op = "begin"}

IsPopulate(c) == c.op = "populate"

\* The successful populations of the segment begun at b, in order.
Populations(b) == SelectSeq(SubSeq(calls, b, SegEnd(b)), IsPopulate)

\* k written with two decimal digits (k < 100).
TwoDigits(k) == <<48 + (k \div 10), 48 + (k % 10)>>

\* The populations one run of the IOC step makes for device count n.
ExpectedPopulations(n) ==
    [k \in 1..n |-> IF k = 1 THEN Call("populate", "5_1", NoIndex, 0)
                    ELSE Call("populate", "5_2", TwoDigits(k), 0)]

IsPrefix(s, t) == Len(s) <= Len(t) /\ \A k \in 1..Len(s) : s[k] = t[k]

\* The IOC step has left its loop and gone on.
IocLoopDone ==
    \/ StateIndex(state) > StepIndex(IocStep)
    \/ cur = IocStep /\ pc \in {"ioc_make", "ioc_make_wait"}

\* C1: one run of create_ioc_from_template on a fresh DeviceInfo with
\* device_count N populates template 5_1 once with no index in the mapping,
\* then template 5_2 N-1 times with index "02" .. "NN" in increasing order,
\* and leaves exactly N populated apps on disk.
C1_IocPopulations ==
    \A b \in Begins :
        calls[b].what = IocStep =>
            /\ IsPrefix(Populations(b), ExpectedPopulations(device.device_count))
            /\ IocLoopDone =>
                 /\ Populations(b) = ExpectedPopulations(device.device_count)
                 /\ {<<f.tag, f.index>> : f \in {g \in files : g.tag \in {"5_1", "5_2"}}}
                      = {<<"5_1", NoIndex>>}
                        \cup {<<"5_2", TwoDigits(k)>> : k \in 2..device.device_count}
                 /\ Cardinality({g \in files : g.tag \in {"5_1", "5_2"}})
                      = device.device_count

C1_Witness ==
    /\ device # NoDevice
    /\ IocLoopDone
    /\ device.device_count >= 10
    /\ device.index = TwoDigits(device.device_count)

\* The keys of placeholders that template tag names and the mapping lacks.
Unresolved(tag, index) ==
    Tokens(tmpl, tag) \ ({"ioc_name"} \cup (IF index = NoIndex THEN {} ELSE {"index"}))

\* C2: a population of a template that holds a token absent from the mapping
\* fails with UnresolvedPlaceholderError and writes no file, and no file on
\* disk ever holds a raw token.
C2_UnresolvedWritesNothing ==
    /\ [](\A f \in files : f.raw = {})
    /\ [][(Len(calls') = Len(calls) + 1
            /\ Last(calls').op \in {"populate", "populate_failed"}
            /\ Unresolved(Last(calls').what, Last(calls').index) # {})
          => (/\ Last(calls').op = "populate_failed"
              /\ error' = "UnresolvedPlaceholderError"
              /\ pc' = "halted"
              /\ files' = files)]_vars

C2_Witness ==
    /\ error = "UnresolvedPlaceholderError"
    /\ Last(calls).op = "populate_failed"
    /\ Last(calls).what = "5_2"
    /\ \E f \in files : f.tag = "5_1"
    /\ \A f \in files : f.tag # "5_2"

\* The steps begun so far, in order.
Begun == [k \in 1..Cardinality(Begins) |->
            calls[CHOOSE b \in Begins : Cardinality({a \in Begins : a <= b}) = k].what]

\* C3: the steps run one at a time in the fixed order, the orchestrator's
\* state advances one state at a time along the fixed sequence, and no step
\* begins while an external process is running.
C3_StrictSequence ==
    /\ [](IsPrefix(Begun, Steps))
    /\ [](Cardinality(Begins) \in {StateIndex(state) - 1, StateIndex(state)}
          \/ (state = "DONE" /\ Cardinality(Begins) = Len(Steps)))
    /\ [](proc.status = "running" => pc \in {"struct_make_wait", "ioc_make_wait"})
    /\ [][state' # state => StateIndex(state') = StateIndex(state) + 1]_vars
    /\ [][Cardinality(Begins') > Cardinality(Begins)
          => pc = "idle" /\ proc.status = "none"]_vars

C3_Witness ==
    /\ state = "DONE"
    /\ \E k \in 1..Len(calls) : calls[k].op = "make_exit" /\ calls[k].what = IocStep

\* The number of positionals among the first k arguments.
Rank(k) == Cardinality({j \in 1..k : argv[j].opt = "positional"})

\* Argument k is converted by a type function or checked against choices,
\* and fails.
ItemFails(k) ==
    LET opt == argv[k].opt
        val == argv[k].val
    IN  \/ opt = "positional" /\ Rank(k) = 1 /\ ~is_valid_ioc_name(val)
        \/ /\ opt = "positional" /\ Rank(k) = 2
           /\ \E n \in {PyInt(val)} :
                  ~n.ok \/ ~does_github_issue_exist_and_is_open(n.val)
        \/ opt = "--device_name" /\ ~is_valid_device_name(val)
        \/ /\ opt = "--device_count"
           /\ \E n \in {PyInt(val)} : ~n.ok \/ ~is_valid_device_count(n.val)

\* An argument fails its check when the parser reaches it: no -h before it
\* has ended the parse.
ValidationFailure ==
    \E k \in 1..Len(argv) :
        /\ ItemFails(k)
        /\ \A j \in 1..(k - 1) : argv[j].opt # "--help"

\* C4: when an argument fails its check, parse_arguments ends in a
\* user-facing error and a non-zero exit; and in a run with an argument that
\* fails its check, reached by the parser or not, no Namespace is returned,
\* no DeviceInfo is constructed, no step runs and nothing is written.
C4_InvalidArgsExit ==
    /\ ValidationFailure =>
           /\ pc \in {"cli", "exited"}
           /\ pc = "exited" =>
                  cli.status = "exit" /\ cli.code # 0 /\ cli.err # NoError
    /\ (\E k \in 1..Len(argv) : ItemFails(k)) =>
           /\ args = NoNamespace
           /\ device = NoDevice
           /\ state = "NOT_STARTED"
           /\ calls = <<>>
           /\ files = {}

\* A count that fails its check after an IOC name and a ticket that passed.
C4_Witness ==
    /\ pc = "exited"
    /\ cli.err = "InvalidDeviceCountError"
    /\ Len(argv) >= 3
    /\ argv[1] = Item("positional", S_CHOP)
    /\ argv[2] = Item("positional", S_sp7sp)
    /\ argv[3] = Item("--device_count", S_0)

PrimaryAndDerivedKeys ==
    {"ioc_name", "device_name", "ticket", "device_count",
     "device_support_module_name", "github_repo_name",
     "support_master_path", "ioc_path"}

\* C5: once the DeviceInfo is constructed, the only step that writes it is
\* create_ioc_from_template, in its loop, and the only key it writes is index.
C5_OnlyIndexWritten ==
    [][(device # NoDevice /\ device' # NoDevice /\ device' # device)
       => (/\ cur = IocStep
           /\ pc = "ioc_loop"
           /\ \A k \in PrimaryAndDerivedKeys : device'[k] = device[k])]_vars

C5_Witness ==
    /\ device # NoDevice
    /\ device.index # NoIndex
    /\ state = "DONE"

NoDuplicates(s) == \A a, b \in 1..Len(s) : s[a] = s[b] => a = b

\* The entry an add_entry call on list_name inserts.
EntryOf(list_name) ==
    IF list_name = "SUPPDIRS" THEN device.device_support_module_name ELSE device.ioc_name

\* C6: an add_entry call whose entry is already in the list leaves the build
\* file as it was, after a successful add_entry the entry is in the list
\* exactly once, and no list ever holds a token twice, however often the
\* steps are run again.
C6_AddEntryIdempotent ==
    /\ [](NoDuplicates(makefiles.SUPPDIRS.entries) /\ NoDuplicates(makefiles.IOCDIRS.entries))
    /\ [][(Len(calls') = Len(calls) + 1 /\ Last(calls').op = "add_entry")
          => LET list_name == Last(calls').what IN
             /\ Count(EntryOf(list_name), makefiles'[list_name].entries) = 1
             /\ InSeq(EntryOf(list_name), makefiles[list_name].entries)
                  => makefiles' = makefiles]_vars

C6_Witness ==
    /\ restarts = 0
    /\ reinvokes >= 1
    /\ calls # <<>>
    /\ Last(calls).op = "add_entry"
    /\ Last(calls).what = "IOCDIRS"
    /\ makefiles.IOCDIRS.entries = <<S_alpha, S_CHOP>>

\* C6, for create_submodule: the program run again inserts into SUPPDIRS a
\* second time.
C6_WitnessRestart ==
    /\ restarts >= 1
    /\ calls # <<>>
    /\ Last(calls).op = "add_entry"
    /\ Last(calls).what = "SUPPDIRS"

\* C7: when the external build invocation of a step exits non-zero, the
\* failure is surfaced and the run halts: the step does not return normally
\* and no later step begins.
C7_BuildFailureHalts ==
    \A k \in 1..Len(calls) :
        (calls[k].op = "make_exit" /\ calls[k].code # 0)
        => /\ \A j \in (k + 1)..Len(calls) : calls[j].op # "begin"
           /\ \/ pc \in {"struct_make_wait", "ioc_make_wait"}
              \/ pc = "halted" /\ error = "ExternalToolFailure"

\* C7, the part the code keeps: nothing a step wrote is removed in a run.
C7_NoRollback ==
    [][restarts' = restarts
       => /\ files \subseteq files'
          /\ \A v \in {"SUPPDIRS", "IOCDIRS"} :
                IsPrefix(makefiles[v].entries, makefiles'[v].entries)]_vars

\* The values given with option opt on the command line.
Given(opt) == {argv[k].val : k \in {j \in 1..Len(argv) : argv[j].opt = opt}}

\* The first positional of the command line.
FirstPositional == argv[CHOOSE k \in 1..Len(argv) :
                            argv[k].opt = "positional" /\ Rank(k) = 1].val

\* C8: after parse_arguments returns, device_name is the value given with
\* --device_name, or ioc_name when the option was not given, and device_count
\* is the value given with --device_count, or 1 when it was not given.
C8_Defaults ==
    cli.status = "parsed" =>
        /\ args.ioc_name = FirstPositional
        /\ args.device_name \in (IF Given("--device_name") # {}
                                 THEN Given("--device_name") ELSE {args.ioc_name})
        /\ args.device_count \in (IF Given("--device_count") # {}
                                  THEN {PyInt(v).val : v \in Given("--device_count")}
                                  ELSE {1})

C8_Witness ==
    /\ cli.status = "parsed"
    /\ Given("--device_name") = {S_Chopper}
    /\ args.device_name = S_Chopper
    /\ Given("--device_count") = {}
    /\ args.device_count = 1

C8_WitnessDefaultName ==
    /\ cli.status = "parsed"
    /\ Given("--device_name") = {}
    /\ args.device_name = S_CHOP
    /\ Given("--device_count") = {S_1_0}
    /\ args.device_count = 10

EditOps == {"populate", "populate_failed", "add_entry", "add_entry_failed"}

FailedOps == {"populate_failed", "add_entry_failed", "git_submodule_failed", "opi_info_failed"}

\* The positions of the make invocations in the segment begun at b.
Makes(b) == {k \in b..SegEnd(b) : calls[k].op = "make"}

\* C9: make is invoked only by create_submodule_structure and
\* create_ioc_from_template, at most once per step and exactly once in a step
\* that returned, after every population of the step and after the IOCDIRS
\* edit, and never in a step where a population or the edit failed.
C9_MakeAfterEdits ==
    \A b \in Begins :
        LET step == calls[b].what
            e == SegEnd(b)
            returned == e < Len(calls) \/ pc \in {"idle", "finished"}
        IN
        /\ Cardinality(Makes(b)) <= 1
        /\ Makes(b) # {} => step \in {"create_submodule_structure", IocStep}
        /\ (\E k \in b..e : calls[k].op \in FailedOps) => Makes(b) = {}
        /\ (returned /\ step \in {"create_submodule_structure", IocStep})
              => Cardinality(Makes(b)) = 1
        /\ \A m \in Makes(b) :
              /\ \A k \in (m + 1)..e : calls[k].op \notin EditOps
              /\ step = "create_submodule_structure"
                    => \E k \in b..m : calls[k].op = "populate" /\ calls[k].what = "4"
              /\ step = IocStep
                    => /\ \E k \in b..m : calls[k].op = "populate" /\ calls[k].what = "5_1"
                       /\ Cardinality({k \in b..m : calls[k].op = "populate"
                                                     /\ calls[k].what = "5_2"})
                            = device.device_count - 1
                       /\ calls[m - 1].op = "add_entry" /\ calls[m - 1].what = "IOCDIRS"

C9_Witness ==
    /\ cur = IocStep
    /\ pc = "ioc_make_wait"
    /\ device.device_count >= 3
    /\ Last(calls).op = "make"

\* The IOC step is inside its loop, or failed.
InsideIocStep == cur = IocStep /\ pc \in {"ioc_loop", "halted"}

\* C10: once create_ioc_from_template has returned with device_count N >= 2
\* the DeviceInfo holds index = N in two digits; the later steps and the 5_1
\* population of a later invocation of the step are passed that index; with
\* device_count 1 the index stays absent.
C10_IndexPersists ==
    device # NoDevice =>
        /\ (device.device_count >= 2 /\ StateIndex(state) > StepIndex(IocStep)
            /\ ~InsideIocStep)
              => device.index = TwoDigits(device.device_count)
        /\ device.device_count = 1 => device.index = NoIndex
        /\ \A k \in 1..Len(calls) :
              (/\ calls[k].op \in {"begin", "populate", "populate_failed", "opi_info",
                                   "opi_info_failed"}
               /\ StepIndex(calls[SegStart(k)].what) > StepIndex(IocStep))
                 => calls[k].index = IF device.device_count >= 2
                                     THEN TwoDigits(device.device_count) ELSE NoIndex
        /\ \A k \in 1..Len(calls) :
              (/\ calls[k].op \in {"populate", "populate_failed"}
               /\ calls[k].what = "5_1"
               /\ \E b \in 1..(SegStart(k) - 1) :
                     calls[b].op = "begin" /\ calls[b].what = IocStep)
                 => calls[k].index = IF device.device_count >= 2
                                     THEN TwoDigits(device.device_count) ELSE NoIndex

C10_Witness ==
    /\ device # NoDevice
    /\ reinvokes >= 1
    /\ device.device_count >= 2
    /\ Last(calls).op = "populate"
    /\ Last(calls).what = "5_1"
    /\ Last(calls).index = TwoDigits(device.device_count)
    /\ \E k \in 1..Len(calls) : calls[k].op = "populate" /\ calls[k].what = "6"

=============================================================================
